---- MODULE Spec2Model ----
(***************************************************************************)
(* SpringBlockOscillator (manim_physics/rigid_mechanics/harmonic.py):      *)
(* a block tied to a fixed anchor by a damped-spring joint, drawn as a     *)
(* coiled curve that is resynthesised from the simulation state.           *)
(*                                                                         *)
(* Lengths are integers in tenths of a scene unit (RIGHT = <<10,0,0>>),    *)
(* arithmetic is exact (real, not floating point), and body angles are     *)
(* counted in quarter turns so that Vec2d.rotated is exact on integers.    *)
(***************************************************************************)
EXTENDS Integers, Sequences, FiniteSets, TLC

VARIABLES
    rest_length,      \* self.rest_length
    stiffness,        \* self.stiffness
    damping,          \* self.damping
    block_width,      \* self.block_width
    animate_spring,   \* self.animate_spring
    spring_style,     \* self._spring_style: [coils, amplitude]
    anchor,           \* self.anchor, a Line: [start, end]
    block_center,     \* self.block.get_center(), the drawn centre of the block
    body,             \* self.block.body, None while the block has no body
    anchor_body,      \* self.anchor.body: the scene whose static body it is, or None
    _spacescene,      \* self._spacescene
    spring_joint,     \* self.spring_joint
    registry,         \* scene |-> the constraints added to scene.space.space
    njoints,          \* number of DampedSpring objects constructed so far
    spring_points,    \* the points last handed to self.spring.set_points_smoothly
    spring_updaters,  \* the updaters registered on self.spring
    lastOp,           \* the operation that produced this state
    lastArgs,         \* its arguments
    err               \* the exception it raised to its caller, or "none"

config == <<rest_length, stiffness, damping, block_width, animate_spring,
            spring_style, anchor, spring_updaters>>
physics == <<body, anchor_body, _spacescene, spring_joint, registry, njoints>>
vars == <<config, block_center, physics, spring_points, lastOp, lastArgs, err>>

\* Python's None
None == [none |-> TRUE]

-----------------------------------------------------------------------------
(* Bounds of the model. *)

MaxCoils == 3          \* coil counts 0..MaxCoils
MaxJoints == 2         \* joints constructed in one run
NumScenes == 2         \* SpaceScene objects an oscillator can be attached to

(* Defaults of the constructor, in tenths. *)
DefaultRestLength == 25
DefaultStiffness == 18
DefaultDamping == 7
DefaultBlockWidth == 8

Scenes == {[scene |-> k] : k \in 1..NumScenes}

-----------------------------------------------------------------------------
(* manim.constants and vector arithmetic (numpy arrays of three numbers). *)

\* Unit vectors; a length in tenths times a unit vector is a vector in tenths.
\* harmonic.py uses DOWN at line 64 although line 8 imports only LEFT, RIGHT and
\* UP; DOWN is taken to be manim's constant, the opposite of UP.
RIGHT == <<1, 0, 0>>
LEFT == <<-1, 0, 0>>
UP == <<0, 1, 0>>
DOWN == <<0, -1, 0>>

One == 10              \* the number 1 (one scene unit), in tenths
AnchorHalfHeight == 6  \* the 0.6 of the anchor line's half height, in tenths

VAdd(a, b) == [i \in 1..3 |-> a[i] + b[i]]
VSub(a, b) == [i \in 1..3 |-> a[i] - b[i]]
VScale(k, a) == [i \in 1..3 |-> k * a[i]]

Max(a, b) == IF a >= b THEN a ELSE b

\* numpy.linspace(0, 1, n): the numerators i of the n samples t = i / (n - 1)
linspace(n) == [k \in 1..n |-> k - 1]

\* pymunk.Vec2d.rotated(angle), the angle counted in quarter turns
rotated(v, q) ==
    CASE q % 4 = 0 -> v
      [] q % 4 = 1 -> <<-v[2], v[1]>>
      [] q % 4 = 2 -> <<-v[1], -v[2]>>
      [] q % 4 = 3 -> <<v[2], -v[1]>>

-----------------------------------------------------------------------------
(* Geometry helpers. *)

\* Line.point_from_proportion(0.5) of a straight line: its midpoint
point_from_proportion_half(line) ==
    [i \in 1..3 |-> (line.start[i] + line.end[i]) \div 2]

_get_anchor_point == point_from_proportion_half(anchor)

_block_local_anchor == <<-(block_width \div 2), 0>>

_block_anchor_point ==
    IF body /= None
    THEN LET offset == rotated(_block_local_anchor, body.angle)
             pos == <<body.position[1] + offset[1], body.position[2] + offset[2]>>
         IN  <<pos[1], pos[2], 0>>
    ELSE VAdd(block_center, VScale(block_width \div 2, LEFT))

\* the resolution without its floor of 8
resolution_unfloored(coils) == 4 * coils

\* max(4 * coils, 8)
resolution(coils) == Max(4 * coils, 8)

\* a point computed with the axis taken from the block to the anchor
SpringPoint_reversed(anchor_pt, axis, len2, coils, amplitude, i, den) ==
    [num    |-> VSub(VScale(den, anchor_pt), VScale(i, axis)),
     den    |-> den,
     normal |-> <<axis[2], -axis[1], 0>>,
     len2   |-> len2,
     phase  |-> (coils * i) % den,
     amp    |-> amplitude]

(* One synthesized point, anchor + axis * t + normal * sine * amplitude, kept  *)
(* exactly: num / den is anchor + axis * t for t = i / den; the lateral term   *)
(* is the unit normal (normal / sqrt(len2)) times amp * sin(2 pi phase / den), *)
(* where phase = coils * i modulo den.                                         *)
SpringPoint(anchor_pt, axis, len2, coils, amplitude, i, den) ==
    [num    |-> VAdd(VScale(den, anchor_pt), VScale(i, axis)),
     den    |-> den,
     normal |-> <<-axis[2], axis[1], 0>>,
     len2   |-> len2,
     phase  |-> (coils * i) % den,
     amp    |-> amplitude]

\* _redraw_spring without the zero-length branch of lines 107-109
_redraw_spring_no_fallback ==
    LET anchor_pt == _get_anchor_point
        block_point == _block_anchor_point
        axis == VSub(block_point, anchor_pt)
        len2 == axis[1] * axis[1] + axis[2] * axis[2]
        n == resolution(spring_style.coils)
        ts == linspace(n)
    IN  [k \in 1..n |->
            SpringPoint(anchor_pt, axis, len2, spring_style.coils,
                        spring_style.amplitude, ts[k], n - 1)]

\* the points _redraw_spring hands to self.spring.set_points_smoothly
_redraw_spring ==
    LET anchor_pt == _get_anchor_point
        block_point == _block_anchor_point
        axis0 == VSub(block_point, anchor_pt)
        length2 == axis0[1] * axis0[1] + axis0[2] * axis0[2]
        axis == IF length2 = 0 THEN VScale(One, RIGHT) ELSE axis0
        len2 == IF length2 = 0 THEN One * One ELSE length2
        n == resolution(spring_style.coils)
        ts == linspace(n)
    IN  [k \in 1..n |->
            SpringPoint(anchor_pt, axis, len2, spring_style.coils,
                        spring_style.amplitude, ts[k], n - 1)]

-----------------------------------------------------------------------------
(* The simulation collaborator: pymunk's Space and Body, and SpaceScene. *)

\* pymunk.Space.add(joint)
space_add(reg, scene, joint) == [reg EXCEPT ![scene] = @ \cup {joint}]

\* pymunk.Space.remove(joint); pymunk refuses a constraint the space does not hold
space_holds(reg, scene, joint) == joint \in reg[scene]
space_remove(reg, scene, joint) == [reg EXCEPT ![scene] = @ \ {joint}]

\* SpaceScene.make_rigid_body(block): the block gets a new dynamic body at its
\* drawn position, at rest and awake
make_rigid_body(center) ==
    [position |-> <<center[1], center[2]>>, velocity |-> <<0, 0>>,
     angular_velocity |-> 0, angle |-> 0, sleeping |-> FALSE]

\* SpaceScene.make_static_body(anchor): the anchor gets the scene's static body
make_static_body(scene) == scene

\* Every constraint registered with any simulation
AllRegistered == UNION {registry[s] : s \in Scenes}

-----------------------------------------------------------------------------
(* Pymunk helpers of the oscillator. *)

\* a spring whose rest length is measured from where the block is now
DampedSpring_recomputed(id, a, anchor_a, anchor_b) ==
    [id |-> id, a |-> a, b |-> "block",
     anchor_a |-> anchor_a, anchor_b |-> anchor_b,
     rest_length |-> _block_anchor_point[1] - _get_anchor_point[1],
     stiffness |-> stiffness, damping |-> damping]

\* pymunk.DampedSpring(anchor.body, block.body, anchor_xy, local_block,
\*                     rest_length, stiffness, damping)
DampedSpring(id, a, anchor_a, anchor_b) ==
    [id |-> id, a |-> a, b |-> "block",
     anchor_a |-> anchor_a, anchor_b |-> anchor_b,
     rest_length |-> rest_length, stiffness |-> stiffness, damping |-> damping]

\* _create_joint without the test of line 141
_create_joint_unguarded(ss, bd, ab, sj, reg, nj) ==
    IF ss = None \/ bd = None
    THEN [spring_joint |-> sj, registry |-> reg, njoints |-> nj]
    ELSE LET joint == DampedSpring(nj + 1, ab,
                          <<_get_anchor_point[1], _get_anchor_point[2]>>,
                          _block_local_anchor)
         IN  [spring_joint |-> joint,
              registry |-> space_add(reg, ss, joint),
              njoints |-> nj + 1]

\* _create_joint without the assignment of line 156
_create_joint_unrecorded(ss, bd, ab, sj, reg, nj) ==
    IF ss = None \/ bd = None \/ sj /= None
    THEN [spring_joint |-> sj, registry |-> reg, njoints |-> nj]
    ELSE LET joint == DampedSpring(nj + 1, ab,
                          <<_get_anchor_point[1], _get_anchor_point[2]>>,
                          _block_local_anchor)
         IN  [spring_joint |-> sj,
              registry |-> space_add(reg, ss, joint),
              njoints |-> nj + 1]

\* _create_joint on the given scene, body, anchor body, record, registry and
\* count: the record, registry and count it leaves
_create_joint(ss, bd, ab, sj, reg, nj) ==
    IF ss = None \/ bd = None
    THEN [spring_joint |-> sj, registry |-> reg, njoints |-> nj]
    ELSE IF sj /= None
    THEN [spring_joint |-> sj, registry |-> reg, njoints |-> nj]
    ELSE LET anchor_xy == <<_get_anchor_point[1], _get_anchor_point[2]>>
             local_block == _block_local_anchor
             joint == DampedSpring(nj + 1, ab, anchor_xy, local_block)
         IN  [spring_joint |-> joint,
              registry |-> space_add(reg, ss, joint),
              njoints |-> nj + 1]

attach_to_scene(scene) ==
    LET ab == make_static_body(scene)
        bd == make_rigid_body(block_center)
        cj == _create_joint(scene, bd, ab, spring_joint, registry, njoints)
    IN  /\ cj.njoints <= MaxJoints
        /\ _spacescene' = scene
        /\ anchor_body' = ab
        /\ body' = bd
        /\ spring_joint' = cj.spring_joint
        /\ registry' = cj.registry
        /\ njoints' = cj.njoints
        /\ lastOp' = "attach"
        /\ lastArgs' = <<scene>>
        /\ err' = "none"
        /\ UNCHANGED <<config, block_center, spring_points>>

-----------------------------------------------------------------------------
(* Public API. *)

\* start_oscillation without the check of lines 164-165
start_check_skipped == "none"

\* the check that opens start_oscillation: the exception it raises, or "none"
start_check == IF _spacescene = None THEN "RuntimeError" ELSE "none"

\* rest_center: the anchor point plus RIGHT * (rest_length + block_width / 2)
rest_center ==
    VAdd(_get_anchor_point, VScale(rest_length + block_width \div 2, RIGHT))

\* start_oscillation placing the block's edge, not its centre, at the rest point
start_body_edge(displacement, velocity) ==
    LET new_center == VAdd(VAdd(_get_anchor_point, VScale(rest_length, RIGHT)),
                           VScale(displacement, RIGHT))
    IN  [position |-> <<new_center[1], new_center[2]>>,
         velocity |-> <<velocity, 0>>,
         angular_velocity |-> 0,
         angle |-> 0,
         sleeping |-> FALSE]

\* start_oscillation without the activate() of line 177
start_body_no_activate(displacement, velocity) ==
    LET new_center == VAdd(rest_center, VScale(displacement, RIGHT))
    IN  [position |-> <<new_center[1], new_center[2]>>,
         velocity |-> <<velocity, 0>>,
         angular_velocity |-> 0,
         angle |-> 0,
         sleeping |-> body.sleeping]

\* the body start_oscillation leaves
start_body(displacement, velocity) ==
    LET new_center == VAdd(rest_center, VScale(displacement, RIGHT))
    IN  [position |-> <<new_center[1], new_center[2]>>,
         velocity |-> <<velocity, 0>>,
         angular_velocity |-> 0,
         angle |-> 0,
         sleeping |-> FALSE]

start_oscillation(displacement, velocity) ==
    /\ lastOp' = "start"
    /\ lastArgs' = <<displacement, velocity>>
    /\ UNCHANGED <<config, block_center, spring_points, _spacescene, anchor_body>>
    /\ IF start_check /= "none"
       THEN /\ err' = start_check
            /\ UNCHANGED <<body, spring_joint, registry, njoints>>
       ELSE LET cj == _create_joint(_spacescene, body, anchor_body,
                                    spring_joint, registry, njoints)
            IN  /\ cj.njoints <= MaxJoints
                /\ spring_joint' = cj.spring_joint
                /\ registry' = cj.registry
                /\ njoints' = cj.njoints
                /\ IF body = None
                   THEN \* self.block.body: the block has no such attribute
                        /\ err' = "AttributeError"
                        /\ UNCHANGED body
                   ELSE /\ err' = "none"
                        /\ body' = start_body(displacement, velocity)

\* reset_displacement without line 199
reset_body_keeps_velocity ==
    [body EXCEPT !.position = <<rest_center[1], rest_center[2]>>,
                 !.angular_velocity = 0,
                 !.angle = 0]

\* the body reset_displacement leaves
reset_body ==
    [body EXCEPT !.position = <<rest_center[1], rest_center[2]>>,
                 !.velocity = <<0, 0>>,
                 !.angular_velocity = 0,
                 !.angle = 0]

stop_oscillation ==
    /\ lastOp' = "stop"
    /\ lastArgs' = <<>>
    /\ UNCHANGED <<config, block_center, spring_points, _spacescene, anchor_body,
                   njoints>>
    /\ IF _spacescene = None
       THEN /\ err' = "none"
            /\ UNCHANGED <<body, spring_joint, registry>>
       ELSE IF spring_joint /= None /\ ~space_holds(registry, _spacescene, spring_joint)
       THEN \* Space.remove raises: the joint is not in this space
            /\ err' = "AssertionError"
            /\ UNCHANGED <<body, spring_joint, registry>>
       ELSE /\ err' = "none"
            /\ IF spring_joint /= None
               THEN /\ registry' = space_remove(registry, _spacescene, spring_joint)
                    /\ spring_joint' = None
               ELSE UNCHANGED <<spring_joint, registry>>
            /\ IF body /= None
               THEN body' = [body EXCEPT !.sleeping = TRUE]
               ELSE UNCHANGED body

\* Whether the body is asleep after the four property writes of lines 198-201:
\* reset_displacement calls neither sleep() nor activate(), and pymunk's
\* property setters may themselves wake a sleeping body
reset_sleeping == {body.sleeping, FALSE}

reset_displacement ==
    /\ lastOp' = "reset"
    /\ lastArgs' = <<>>
    /\ err' = "none"
    /\ UNCHANGED <<config, block_center, spring_points, _spacescene, anchor_body,
                   spring_joint, registry, njoints>>
    /\ IF body = None
       THEN UNCHANGED body
       ELSE \E asleep \in reset_sleeping :
               body' = [reset_body EXCEPT !.sleeping = asleep]

-----------------------------------------------------------------------------
(* The per-frame callbacks. *)

\* an updater that is suspended while no spring constraint is active
updater_due_while_oscillating ==
    "_redraw_spring" \in spring_updaters /\ spring_joint /= None

\* the scene calls every updater registered on the spring once per frame
updater_due == "_redraw_spring" \in spring_updaters

\* an updater that also wakes the body it reads
updater_waking_body ==
    /\ updater_due
    /\ spring_points' = _redraw_spring
    /\ body' = IF body = None THEN body ELSE [body EXCEPT !.sleeping = FALSE]
    /\ lastOp' = "redraw"
    /\ lastArgs' = <<>>
    /\ err' = "none"
    /\ UNCHANGED <<config, block_center, anchor_body, _spacescene, spring_joint,
                   registry, njoints>>

\* the updater of line 84, registered only when animate_spring
updater ==
    /\ updater_due
    /\ spring_points' = _redraw_spring
    /\ lastOp' = "redraw"
    /\ lastArgs' = <<>>
    /\ err' = "none"
    /\ UNCHANGED <<config, block_center, physics>>

\* What one simulation step can leave of an awake body: carried to the anchor,
\* fallen and turned a quarter turn, or put to sleep where it is
StepOutcomes ==
    LET a == _get_anchor_point IN
    { [position |-> <<a[1] + block_width \div 2, a[2]>>, velocity |-> <<-One, 0>>,
       angular_velocity |-> 0, angle |-> 0, sleeping |-> FALSE],
      [position |-> <<a[1] + rest_length, a[2] - rest_length>>,
       velocity |-> <<0, -One>>,
       angular_velocity |-> 1, angle |-> 1, sleeping |-> FALSE],
      [body EXCEPT !.velocity = <<0, 0>>, !.angular_velocity = 0,
                   !.sleeping = TRUE] }

\* One frame of the simulation: the space steps an awake body and the block's
\* drawn centre follows its body
step ==
    /\ body /= None
    /\ ~body.sleeping
    /\ \E b \in StepOutcomes :
          /\ body' = b
          /\ block_center' = <<b.position[1], b.position[2], 0>>
    /\ lastOp' = "step"
    /\ lastArgs' = <<>>
    /\ err' = "none"
    /\ UNCHANGED <<config, anchor_body, _spacescene, spring_joint, registry,
                   njoints, spring_points>>

-----------------------------------------------------------------------------
(* The state after construction, and the specification. *)

AnchorPoints == {<<0, 0, 0>>, <<-40, 0, One>>}
RestLengths == {DefaultRestLength}
BlockWidths == {DefaultBlockWidth}
\* style descriptors: every coil count at amplitude 1, and a flat curve
SpringStyles ==
    {[coils |-> c, amplitude |-> 1] : c \in 0..MaxCoils}
        \cup {[coils |-> 1, amplitude |-> 0]}
\* displacements: back onto the anchor, none, one scene unit
Displacements(rl) == {-rl, 0, One}
Velocities == {0, 2 * One}

Init ==
    /\ rest_length \in RestLengths
    /\ stiffness = DefaultStiffness
    /\ damping = DefaultDamping
    /\ block_width \in BlockWidths
    /\ animate_spring \in BOOLEAN
    /\ spring_style \in SpringStyles
    /\ \E anchor_point \in AnchorPoints :
          /\ anchor = [start |-> VAdd(anchor_point, VScale(AnchorHalfHeight, UP)),
                       end |-> VAdd(anchor_point, VScale(AnchorHalfHeight, DOWN))]
          /\ block_center =
                VAdd(anchor_point, VScale(rest_length + block_width \div 2, RIGHT))
    /\ body = None
    /\ anchor_body = None
    /\ _spacescene = None
    /\ spring_joint = None
    /\ registry = [s \in Scenes |-> {}]
    /\ njoints = 0
    /\ spring_points = _redraw_spring
    /\ spring_updaters = IF animate_spring THEN {"_redraw_spring"} ELSE {}
    /\ lastOp = "init"
    /\ lastArgs = <<>>
    /\ err = "none"

Next ==
    \/ \E scene \in Scenes : attach_to_scene(scene)
    \/ \E d \in Displacements(rest_length), v \in Velocities : start_oscillation(d, v)
    \/ stop_oscillation
    \/ reset_displacement
    \/ updater
    \/ step

Spec == Init /\ [][Next]_vars

-----------------------------------------------------------------------------
(* Properties. *)

\* every (simulation, constraint) registration
Registrations == {p \in Scenes \X AllRegistered : p[2] \in registry[p[1]]}

\* C1: whatever calls were made, at most one spring constraint is registered
\* (over all simulations), and while spring_joint is recorded _create_joint
\* registers nothing, constructs nothing and leaves the record as it is.
C1_AtMostOneConstraint ==
    /\ Cardinality(Registrations) <= 1
    /\ spring_joint /= None =>
          LET cj == _create_joint(_spacescene, body, anchor_body,
                                  spring_joint, registry, njoints)
          IN  /\ cj.spring_joint = spring_joint
              /\ cj.registry = registry
              /\ cj.njoints = njoints

\* start_oscillation was called on an oscillator that already had its joint
C1_Witness ==
    /\ lastOp = "start"
    /\ err = "none"
    /\ njoints = 1
    /\ spring_joint /= None

\* C2: right after every start_oscillation on an attached oscillator exactly one
\* constraint is registered, and it is the recorded one.
C2_StartLeavesExactlyOne ==
    (lastOp = "start" /\ _spacescene /= None) =>
        /\ err = "none"
        /\ spring_joint /= None
        /\ Cardinality(Registrations) = 1
        /\ AllRegistered = {spring_joint}

\* a start that re-created the constraint after a stop
C2_Witness ==
    /\ lastOp = "start"
    /\ njoints = 2
    /\ spring_joint /= None
    /\ spring_joint.id = 2
    /\ registry[_spacescene] = {spring_joint}

\* C3 as stated: attach_to_scene on an Unattached oscillator leaves no spring
\* constraint recorded or registered.
C3_AttachLeavesNoConstraint ==
    [][(_spacescene = None /\ lastOp' = "attach") =>
          (spring_joint' = None /\ AllRegistered' = {})]_vars

\* C3 amended: attach_to_scene on an Unattached oscillator itself creates the
\* spring constraint: right after it exactly one constraint is recorded, and it
\* is registered with the simulation just attached.
C3_AttachCreatesConstraint ==
    [][(_spacescene = None /\ lastOp' = "attach") =>
          /\ spring_joint' /= None
          /\ registry'[_spacescene'] = {spring_joint'}
          /\ Cardinality(Registrations') = 1]_vars

\* the first attach has been made and nothing else since
C3_Witness ==
    /\ lastOp = "attach"
    /\ njoints = 1
    /\ spring_joint /= None
    /\ registry[_spacescene] = {spring_joint}

\* C4: start_oscillation before attach_to_scene raises the usage error and
\* changes neither the record, the registry nor the body.
C4_StartBeforeAttachRaises ==
    [][(_spacescene = None /\ lastOp' = "start") =>
          /\ err' = "RuntimeError"
          /\ UNCHANGED <<body, anchor_body, _spacescene, spring_joint, registry,
                         njoints, block_center, spring_points, config>>]_vars

\* start_oscillation was called on an oscillator never attached
C4_Witness ==
    /\ lastOp = "start"
    /\ err = "RuntimeError"
    /\ _spacescene = None
    /\ body = None

\* C5 as stated: after stop_oscillation on an attached oscillator no constraint
\* is recorded or registered and the body is asleep.
C5_StopLeavesNoConstraintAsleep ==
    (lastOp = "stop" /\ _spacescene /= None) =>
        /\ spring_joint = None
        /\ AllRegistered = {}
        /\ body /= None
        /\ body.sleeping

\* the rest point of the block's centre: the anchor point moved right by the
\* rest length and half the block's width
RestPoint ==
    <<_get_anchor_point[1] + rest_length + block_width \div 2, _get_anchor_point[2]>>

\* C6: reset_displacement changes neither the simulation referenced, the record
\* nor the registry, gives or takes no body, and leaves an existing body at the
\* rest point with zero velocity, zero angular velocity and zero orientation.
C6_ResetKeepsConstraint ==
    [][lastOp' = "reset" =>
          /\ UNCHANGED <<_spacescene, anchor_body, spring_joint, registry, njoints>>
          /\ (body' = None) <=> (body = None)
          /\ body' /= None =>
                /\ body'.position = RestPoint
                /\ body'.velocity = <<0, 0>>
                /\ body'.angular_velocity = 0
                /\ body'.angle = 0]_vars

\* reset_displacement was called while the constraint was active and the body
\* had been moved and turned by the simulation
C6_Witness ==
    /\ lastOp = "reset"
    /\ spring_joint /= None
    /\ body /= None
    /\ body.position = RestPoint
    /\ block_center /= <<RestPoint[1], RestPoint[2], block_center[3]>>

\* C7: after a successful start_oscillation(d, v) the body is at the anchor point
\* moved right by rest_length + block_width / 2 + d, with velocity (v, 0), zero
\* angular velocity and zero orientation.
C7_StartInjectsState ==
    (lastOp = "start" /\ err = "none") =>
        /\ body /= None
        /\ body.position = <<RestPoint[1] + lastArgs[1], RestPoint[2]>>
        /\ body.velocity = <<lastArgs[2], 0>>
        /\ body.angular_velocity = 0
        /\ body.angle = 0

\* start_oscillation(1.0, 2.0) was called after the simulation had carried the
\* body elsewhere
C7_Witness ==
    /\ lastOp = "start"
    /\ err = "none"
    /\ lastArgs = <<One, 2 * One>>
    /\ body.position = <<RestPoint[1] + One, RestPoint[2]>>
    /\ block_center[2] /= RestPoint[2]

\* sin(2 pi phase / den) = 0: the phase is a whole number of half turns
SineIsZero(p) == (2 * p.phase) % p.den = 0

\* The synthesized point p is the point P: its lateral term (a unit normal times
\* amp * sine) vanishes and anchor + axis * t is P
PointIs(p, P) ==
    /\ p.num = VScale(p.den, P)
    /\ p.amp = 0 \/ SineIsZero(p)

FirstPoint == spring_points[1]
LastPoint == spring_points[Len(spring_points)]

\* the curve was drawn from the present state (by the constructor or the updater)
JustRedrawn == lastOp \in {"init", "redraw"}

\* the anchor point and the block's attachment point differ in x or in y
PlanarApart ==
    \/ _block_anchor_point[1] /= _get_anchor_point[1]
    \/ _block_anchor_point[2] /= _get_anchor_point[2]

C9_EndpointExactness ==
    (JustRedrawn /\ _block_anchor_point /= _get_anchor_point) =>
        /\ PointIs(FirstPoint, _get_anchor_point)
        /\ PointIs(LastPoint, _block_anchor_point)

\* C10: the points handed to the curve number max(4 * coils, 8).
C10_PointCount ==
    Len(spring_points) =
        IF 4 * spring_style.coils >= 8 THEN 4 * spring_style.coils ELSE 8

\* a redraw by the updater with three coils: twelve points
C10_Witness ==
    /\ lastOp = "redraw"
    /\ spring_style.coils = 3
    /\ Len(spring_points) = 12

\* C11 as stated: in every attached state, of every oscillator, the per-frame
\* redraw is due (the updater is registered and is called each frame).
C11_RedrawnEveryFrameAlways ==
    _spacescene /= None => updater_due

\* C11 amended: for an oscillator constructed with animate_spring true, in every
\* attached state, with or without a constraint, the per-frame redraw is due,
\* and the points a redraw leaves are those of the current anchor and block
\* points.
C11_RedrawnEveryFrameWhenAnimated ==
    /\ (_spacescene /= None /\ animate_spring) => updater_due
    /\ lastOp = "redraw" => spring_points = _redraw_spring

\* a redraw after stop_oscillation: no constraint, the body asleep
C11_Witness ==
    /\ lastOp = "redraw"
    /\ animate_spring
    /\ _spacescene /= None
    /\ spring_joint = None
    /\ body /= None
    /\ body.sleeping
    /\ spring_points = _redraw_spring

\* C12: right after every start_oscillation that returned normally the body is
\* awake, whatever it was before (in particular asleep after stop_oscillation).
C12_StartWakesBody ==
    (lastOp = "start" /\ err = "none") =>
        /\ body /= None
        /\ ~body.sleeping

\* a start that re-created the constraint, as after attach; stop; start(0, 0)
C12_Witness ==
    /\ lastOp = "start"
    /\ err = "none"
    /\ lastArgs = <<0, 0>>
    /\ spring_joint /= None
    /\ spring_joint.id = 2
    /\ ~body.sleeping

\* C13: stop_oscillation never raises; a stop right after a stop changes
\* nothing, and a stop on an oscillator that was never attached changes nothing.
C13_StopIdempotentNeverError ==
    [][lastOp' = "stop" =>
          /\ err' = "none"
          /\ lastOp = "stop" =>
                UNCHANGED <<config, block_center, physics, spring_points>>
          /\ _spacescene = None =>
                UNCHANGED <<config, block_center, physics, spring_points>>]_vars

\* the constraints that exist: registered with a simulation, or recorded
Constraints ==
    AllRegistered \cup (IF spring_joint = None THEN {} ELSE {spring_joint})

\* C14: no step changes the rest length, stiffness or damping the oscillator was
\* constructed with, and every constraint that exists after a step, created at
\* attach, at a start or at a re-creation after a stop, carries them.
C14_ConstraintCarriesConstruction ==
    [][/\ UNCHANGED <<rest_length, stiffness, damping>>
       /\ \A j \in Constraints' :
             /\ j.rest_length = rest_length
             /\ j.stiffness = stiffness
             /\ j.damping = damping]_vars

\* a re-created constraint, the block pushed back onto the anchor by the start
C14_Witness ==
    /\ spring_joint /= None
    /\ spring_joint.id = 2
    /\ spring_joint.rest_length = DefaultRestLength
    /\ spring_joint.stiffness = DefaultStiffness
    /\ spring_joint.damping = DefaultDamping
    /\ body /= None
    /\ body.position /= RestPoint
    /\ lastOp = "start"
    /\ lastArgs[1] = -rest_length

\* C15: after a redraw with the block's attachment point on the anchor point, the
\* curve has max(4 * coils, 8) > 0 points, the first of them the anchor point;
\* every point is divided by the length 1 (never by zero), has the unit normal
\* of the axis RIGHT, and lies on the anchor's line to the right, the last one
\* unit away.
C15_ZeroLengthFallback ==
    (JustRedrawn /\ _block_anchor_point = _get_anchor_point) =>
        /\ err = "none"
        /\ Len(spring_points) = Max(4 * spring_style.coils, 8)
        /\ Len(spring_points) > 0
        /\ PointIs(FirstPoint, _get_anchor_point)
        /\ \A k \in 1..Len(spring_points) :
              LET p == spring_points[k]
              IN  /\ p.len2 = One * One
                  /\ p.normal = VScale(One, UP)
                  /\ p.num = VAdd(VScale(p.den, _get_anchor_point),
                                  VScale((k - 1) * One, RIGHT))

\* a redraw after start_oscillation(-rest_length) put the block's edge on the
\* anchor point
C15_Witness ==
    /\ lastOp = "redraw"
    /\ body /= None
    /\ _block_anchor_point = _get_anchor_point
    /\ spring_style.coils = MaxCoils
    /\ Len(spring_points) = 4 * MaxCoils
    /\ LastPoint.num = VScale(LastPoint.den, VAdd(_get_anchor_point, VScale(One, RIGHT)))

\* C16: a redraw leaves the body (position, velocity, orientation, sleep state),
\* the constraint record, the registry, the simulation referenced, the drawn
\* block and the configuration as they were, and a redraw right after a redraw
\* leaves the same points.
C16_RedrawOnlyMovesCurve ==
    [][lastOp' = "redraw" =>
          /\ UNCHANGED <<config, block_center, physics>>
          /\ lastOp = "redraw" => spring_points' = spring_points]_vars

\* a redraw while the constraint is active and the body is moving
C16_Witness ==
    /\ lastOp = "redraw"
    /\ spring_joint /= None
    /\ body /= None
    /\ ~body.sleeping
    /\ body.velocity /= <<0, 0>>
    /\ spring_points = _redraw_spring

\* C17: when attach_to_scene gives the block its first body, at the drawn centre
\* and not turned, the block's attachment point is the same point, in all three
\* coordinates, after the attach (bound path) as before it (unbound path).
C17_NoDiscontinuityAtAttach ==
    [][(/\ body = None
        /\ lastOp' = "attach"
        /\ body' /= None
        /\ body'.position = <<block_center[1], block_center[2]>>
        /\ body'.angle = 0)
       => _block_anchor_point' = _block_anchor_point]_vars

\* C18: whatever the state an operation was called in, it returned normally or
\* raised the RuntimeError of start_oscillation, and it raised exactly when it
\* was a start_oscillation on an oscillator that was never attached.
C18_LifecycleTotal ==
    /\ err \in {"none", "RuntimeError"}
    /\ err /= "none" <=> (lastOp = "start" /\ _spacescene = None)

\* C19: a recorded constraint is registered with the simulation the oscillator
\* references now.
C19_RecordedIsRegisteredHere ==
    spring_joint /= None =>
        /\ _spacescene /= None
        /\ space_holds(registry, _spacescene, spring_joint)

====
